---------------------------- MODULE Spec2Model ----------------------------
(***************************************************************************)
(* A model of src/ai/backend/agent/resources.py: the KernelResourceSpec    *)
(* text protocol (write_to_string / read_from_string / read_from_file),    *)
(* its JSON projection, Mount.from_str / Mount.__str__, the plugin         *)
(* ordering of ComputePluginContext.discover_plugins, and bitmask2set.     *)
(*                                                                         *)
(* A Python str is modelled as the sequence of its lexical atoms: every    *)
(* delimiter the code looks at ("\n", "=", ",", ":", ".", "/", " ", the    *)
(* JSON punctuation, each decimal digit) is an atom of its own, and a run  *)
(* of other characters (a name, a key word) is one atom.  split, strip,    *)
(* partition, upper, lower and endswith are computed on these sequences.   *)
(***************************************************************************)
EXTENDS Integers, Sequences, FiniteSets, TLC

VARIABLES
    pc,                 \* position of the operation under study
    s,                  \* Mount.from_str: the argument
    mount,              \* Mount.from_str: the outcome
    scanned_plugins,    \* discover_plugins: what the base discovery produced
    yielded,            \* discover_plugins: what it yields
    mask0,              \* bitmask2set: the argument
    mask,               \* bitmask2set: local mask
    bpos,               \* bitmask2set: local bpos
    bset,               \* bitmask2set: local bset
    result,             \* bitmask2set: the frozenset returned
    known_slot_types,   \* the module-level registry
    self,               \* the KernelResourceSpec being written
    text,               \* the text written, or given to read_from_string
    wrote,              \* outcome of write_to_string
    parsed,             \* outcome of read_from_string
    from_file,          \* outcome of read_from_file
    json                \* outcome of to_json_serializable_dict

vars == <<pc, s, mount, scanned_plugins, yielded, mask0, mask, bpos, bset,
          result, known_slot_types, self, text, wrote, parsed, from_file, json>>

mountVars == <<s, mount>>
pluginVars == <<scanned_plugins, yielded>>
bitmaskVars == <<mask0, mask, bpos, bset, result>>
recordVars == <<known_slot_types, self, text, wrote, parsed, from_file, json>>

-----------------------------------------------------------------------------
(* The variables of the operations a specification does not exercise.      *)

MountIdle == s = <<>> /\ mount = <<>>

PluginIdle == scanned_plugins = <<>> /\ yielded = <<>>

BitmaskIdle == mask0 = 0 /\ mask = 0 /\ bpos = 0 /\ bset = <<>> /\ result = {}

RecordIdle ==
    /\ known_slot_types = <<>> /\ self = <<>> /\ text = <<>>
    /\ wrote = <<>> /\ parsed = <<>> /\ from_file = <<>> /\ json = <<>>

-----------------------------------------------------------------------------
(* Strings as sequences of atoms.                                          *)

NL == "\n"

\* All strings of at most n atoms over the alphabet A.
StringsUpTo(A, n) == UNION {[1..k -> A] : k \in 0..n}

\* x in seq
Contains(str, a) == \E i \in 1..Len(str) : str[i] = a

\* index of the first occurrence of a in str, 0 when there is none
RECURSIVE FindFrom(_, _, _)
FindFrom(str, a, i) ==
    IF i > Len(str) THEN 0
    ELSE IF str[i] = a THEN i
    ELSE FindFrom(str, a, i + 1)

Find(str, a) == FindFrom(str, a, 1)

\* str.split(sep): always at least one field
RECURSIVE Split(_, _)
Split(str, sep) ==
    LET i == Find(str, sep)
    IN  IF i = 0 THEN <<str>>
        ELSE <<SubSeq(str, 1, i - 1)>> \o Split(SubSeq(str, i + 1, Len(str)), sep)

\* sep.join(strs)
RECURSIVE Join(_, _)
Join(strs, sep) ==
    IF Len(strs) = 0 THEN <<>>
    ELSE IF Len(strs) = 1 THEN strs[1]
    ELSE strs[1] \o sep \o Join(Tail(strs), sep)

\* str.startswith(prefix)
StartsWith(str, prefix) ==
    Len(str) >= Len(prefix) /\ SubSeq(str, 1, Len(prefix)) = prefix

\* str.partition(sep): the text before and after the first sep (the whole
\* string and "" when there is none); also str.split(sep, maxsplit=1) for a
\* string known to hold sep.
Partition(str, sep) ==
    LET i == Find(str, sep)
    IN  IF i = 0 THEN <<str, <<>>>>
        ELSE <<SubSeq(str, 1, i - 1), SubSeq(str, i + 1, Len(str))>>

Whitespace == {" ", "\t", "\r"}

RECURSIVE LStrip(_)
LStrip(str) ==
    IF str # <<>> /\ str[1] \in Whitespace THEN LStrip(Tail(str)) ELSE str

RECURSIVE RStrip(_)
RStrip(str) ==
    IF str # <<>> /\ str[Len(str)] \in Whitespace
    THEN RStrip(SubSeq(str, 1, Len(str) - 1))
    ELSE str

\* str.strip()
Strip(str) == RStrip(LStrip(str))

\* str.upper() and str.lower(), atom by atom; atoms without letters (digits,
\* punctuation) are unchanged.
UpperAtom(a) ==
    CASE a \in {"cuda", "Cuda"} -> "CUDA"
      [] a = "mem" -> "MEM"
      [] a = "cpu" -> "CPU"
      [] a = "tpu" -> "TPU"
      [] a = "shares" -> "SHARES"
      [] OTHER -> a

LowerAtom(a) ==
    CASE a \in {"CUDA", "Cuda"} -> "cuda"
      [] a = "MEM" -> "mem"
      [] a = "CPU" -> "cpu"
      [] a = "TPU" -> "tpu"
      [] a = "SHARES" -> "shares"
      [] a = "_SHARES" -> "_shares"
      [] OTHER -> a

Upper(str) == [i \in 1..Len(str) |-> UpperAtom(str[i])]

Lower(str) == [i \in 1..Len(str) |-> LowerAtom(str[i])]

-----------------------------------------------------------------------------
(* Ordered mappings (Python dicts): sequences of <<key, value>> pairs with  *)
(* distinct keys, in insertion order.                                      *)

Keys(d) == {d[i][1] : i \in 1..Len(d)}

Has(d, k) == \E i \in 1..Len(d) : d[i][1] = k

Get(d, k) == d[CHOOSE i \in 1..Len(d) : d[i][1] = k][2]

\* d[k] = v
Put(d, k, v) ==
    IF Has(d, k)
    THEN [i \in 1..Len(d) |-> IF d[i][1] = k THEN <<k, v>> ELSE d[i]]
    ELSE Append(d, <<k, v>>)

\* The mapping itself, for ==, which ignores the order.
AsMap(d) == [k \in Keys(d) |-> Get(d, k)]

-----------------------------------------------------------------------------
(* Decimal numbers.  A Decimal is modelled by its value in hundredths (a    *)
(* natural number); its str() is the shortest literal of that value.       *)

Digits == <<"0", "1", "2", "3", "4", "5", "6", "7", "8", "9">>

IsDigit(a) == \E i \in 1..10 : Digits[i] = a

DigitValue(a) == (CHOOSE i \in 1..10 : Digits[i] = a) - 1

RECURSIVE IntToStr(_)
IntToStr(n) ==
    IF n < 10 THEN <<Digits[n + 1]>>
    ELSE Append(IntToStr(n \div 10), Digits[(n % 10) + 1])

IsNumeral(str) == str # <<>> /\ \A i \in 1..Len(str) : IsDigit(str[i])

RECURSIVE NumeralValue(_)
NumeralValue(str) ==
    IF str = <<>> THEN 0
    ELSE 10 * NumeralValue(SubSeq(str, 1, Len(str) - 1))
            + DigitValue(str[Len(str)])

\* str(Decimal) of the value h / 100
DecimalStr(h) ==
    IF h % 100 = 0 THEN IntToStr(h \div 100)
    ELSE IF h % 10 = 0
        THEN IntToStr(h \div 100) \o <<".", Digits[((h % 100) \div 10) + 1]>>
    ELSE IntToStr(h \div 100)
            \o <<".", Digits[((h % 100) \div 10) + 1], Digits[(h % 10) + 1]>>

\* Decimal(str): literals with at most two fraction digits (the model holds
\* no others); anything else is decimal.InvalidOperation.
ParseDecimal(str) ==
    LET f == Split(str, ".")
    IN  IF Len(f) = 1 /\ IsNumeral(f[1])
            THEN [err |-> "none", val |-> 100 * NumeralValue(f[1])]
        ELSE IF Len(f) = 2 /\ IsNumeral(f[1]) /\ IsNumeral(f[2]) /\ Len(f[2]) <= 2
            THEN [err |-> "none",
                  val |-> 100 * NumeralValue(f[1])
                          + (IF Len(f[2]) = 1 THEN 10 ELSE 1) * NumeralValue(f[2])]
        ELSE [err |-> "InvalidOperation", val |-> 0]

-----------------------------------------------------------------------------
(* BinarySize: an int with a scaled rendering ("1.5k", "10m") and a parser. *)

KiB == 1024

Multiplier(suffix) == IF suffix = "k" THEN KiB ELSE KiB * KiB

\* BinarySize._quantize: val / multiplier, in hundredths, exact when it is
\* a whole number and rounded half-even to two places otherwise
Quantize(val, multiplier) ==
    IF val % multiplier = 0 THEN 100 * (val \div multiplier)
    ELSE LET q == (100 * val) \div multiplier
             r == (100 * val) % multiplier
         IN  IF 2 * r > multiplier \/ (2 * r = multiplier /\ q % 2 = 1)
             THEN q + 1 ELSE q

\* format(BinarySize(val), 'm')
FormatSizeM(val) == DecimalStr(Quantize(val, Multiplier("m"))) \o <<"m">>

\* format(BinarySize(val), 's'): scaled to the largest unit not above val
FormatSizeS(val) ==
    IF val < KiB THEN IntToStr(val)
    ELSE IF val < KiB * KiB
        THEN DecimalStr(Quantize(val, Multiplier("k"))) \o <<"k">>
    ELSE DecimalStr(Quantize(val, Multiplier("m"))) \o <<"m">>

\* BinarySize.from_str / finite_from_str: a plain integer, or a decimal
\* followed by a scale suffix; the result is truncated to an integer.
ParseSize(str) ==
    IF IsNumeral(str) THEN [err |-> "none", val |-> NumeralValue(str)]
    ELSE IF str = <<>> \/ IsDigit(str[Len(str)])
        THEN [err |-> "ValueError", val |-> 0]
    ELSE LET d == ParseDecimal(SubSeq(str, 1, Len(str) - 1))
             suffix == LowerAtom(str[Len(str)])
         IN  IF d.err # "none" \/ suffix \notin {"k", "m"}
                 THEN [err |-> "ValueError", val |-> 0]
             ELSE [err |-> "none",
                   val |-> (d.val * Multiplier(suffix)) \div 100]

-----------------------------------------------------------------------------
(* json.dumps / json.loads of a str -> str mapping.                        *)

QUOTE == "\""

JsonString(str) == <<QUOTE>> \o str \o <<QUOTE>>

\* json.dumps(d): {"k": "v", "k": "v"}
JsonDumps(d) ==
    <<"{">>
    \o Join([i \in 1..Len(d) |->
                JsonString(d[i][1]) \o <<":", " ">> \o JsonString(d[i][2])],
            <<",", " ">>)
    \o <<"}">>

\* A JSON string starting at str[i]: <<its content, the index behind it>>,
\* or index 0 when there is none.
JsonReadString(str, i) ==
    IF i > Len(str) \/ str[i] # QUOTE THEN <<(<<>>), 0>>
    ELSE LET j == FindFrom(str, QUOTE, i + 1)
         IN  IF j = 0 THEN <<(<<>>), 0>>
             ELSE <<SubSeq(str, i + 1, j - 1), j + 1>>

\* The members of an object from str[i] on, added to acc.
RECURSIVE JsonReadMembers(_, _, _)
JsonReadMembers(str, i, acc) ==
    LET k == JsonReadString(str, i)
    IN  IF k[2] = 0 \/ k[2] + 1 > Len(str)
           \/ str[k[2]] # ":" \/ str[k[2] + 1] # " "
            THEN [err |-> "JSONDecodeError", val |-> <<>>]
        ELSE
        LET v == JsonReadString(str, k[2] + 2)
        IN  IF v[2] = 0 \/ v[2] > Len(str)
                THEN [err |-> "JSONDecodeError", val |-> <<>>]
            ELSE IF str[v[2]] = "}" /\ v[2] = Len(str)
                THEN [err |-> "none", val |-> Put(acc, k[1], v[1])]
            ELSE IF str[v[2]] = "," /\ v[2] + 1 <= Len(str) /\ str[v[2] + 1] = " "
                THEN JsonReadMembers(str, v[2] + 2, Put(acc, k[1], v[1]))
            ELSE [err |-> "JSONDecodeError", val |-> <<>>]

\* json.loads(str) for an object of strings
JsonLoads(str) ==
    IF str = <<"{", "}">> THEN [err |-> "none", val |-> <<>>]
    ELSE IF str = <<>> \/ str[1] # "{"
        THEN [err |-> "JSONDecodeError", val |-> <<>>]
    ELSE JsonReadMembers(str, 2, <<>>)

-----------------------------------------------------------------------------
(* pathlib.Path (POSIX flavour), as Mount.from_str uses it.                *)

\* Path(str): the root ("", "/" or "//") and the components, with empty and
\* "." components dropped (".." is kept).
Path(str) ==
    LET n == Len(str)
        root == IF n >= 1 /\ str[1] = "/"
                THEN IF n >= 2 /\ str[2] = "/" /\ ~(n >= 3 /\ str[3] = "/")
                     THEN <<"/", "/">>
                     ELSE <<"/">>
                ELSE <<>>
    IN  [root  |-> root,
         names |-> SelectSeq(Split(str, "/"),
                             LAMBDA c : c # <<>> /\ c # <<".">>)]

is_absolute(p) == p.root # <<>>

\* len(p.parts): the root counts as a part
NumParts(p) == Len(p.names) + (IF p.root # <<>> THEN 1 ELSE 0)

\* str(p)
PathStr(p) ==
    IF p.root = <<>> /\ p.names = <<>> THEN <<".">>
    ELSE p.root \o Join(p.names, <<"/">>)

-----------------------------------------------------------------------------
(* Mount                                                                   *)

\* MountPermission: the values its constructor accepts
MountPermission == {"ro", "rw"}

NoPath == [root |-> <<>>, names |-> <<>>]

NoMount ==
    [type |-> "none", source_is_path |-> FALSE, source |-> NoPath,
     target |-> NoPath, permission |-> "none", opts |-> "None"]

Raise(e) == [err |-> e, val |-> NoMount]

\* Mount.from_str, with the BIND and VOLUME outcomes exchanged
from_str_swapped(str) ==
    LET f == Split(str, ":")
    IN  IF Len(f) # 3 THEN Raise("ValueError")
        ELSE
        LET source == Path(f[1])
            target == Path(f[2])
        IN  IF ~is_absolute(source) /\ NumParts(source) # 1
                THEN Raise("ValueError")
            ELSE IF ~is_absolute(target) THEN Raise("ValueError")
            ELSE IF Len(f[3]) # 1 \/ f[3][1] \notin MountPermission
                THEN Raise("ValueError")
            ELSE [err |-> "none",
                  val |-> [type |-> IF is_absolute(source) THEN "VOLUME" ELSE "BIND",
                           source_is_path |-> is_absolute(source),
                           source |-> source,
                           target |-> target,
                           permission |-> f[3][1],
                           opts |-> "None"]]

\* Mount.from_str.  A VOLUME's source is str(source), kept here as the
\* (single-name, rootless) path it was taken from, with source_is_path FALSE.
from_str(str) ==
    LET f == Split(str, ":")
    IN  IF Len(f) # 3 THEN Raise("ValueError")
        ELSE
        LET source == Path(f[1])
            target == Path(f[2])
        IN  IF ~is_absolute(source) /\ NumParts(source) # 1
                THEN Raise("ValueError")
            ELSE IF ~is_absolute(target) THEN Raise("ValueError")
            ELSE IF Len(f[3]) # 1 \/ f[3][1] \notin MountPermission
                THEN Raise("ValueError")
            ELSE [err |-> "none",
                  val |-> [type |-> IF is_absolute(source) THEN "BIND" ELSE "VOLUME",
                           source_is_path |-> is_absolute(source),
                           source |-> source,
                           target |-> target,
                           permission |-> f[3][1],
                           opts |-> "None"]]

\* Mount.__str__
MountStr(m) ==
    PathStr(m.source) \o <<":">> \o PathStr(m.target) \o <<":", m.permission>>

-----------------------------------------------------------------------------
(* KernelResourceSpec.write_to_string                                      *)

\* known_slot_types.get(slot_name, 'count')
SlotType(kst, slot_name) ==
    IF Has(kst, slot_name) THEN Get(kst, slot_name) ELSE "count"

\* int(alloc), as BinarySize(alloc) takes a Decimal
IntOf(alloc) == alloc \div 100

\* the prefix test without the "or slot_name == device_name"
PrefixOkNoEqual(device_name, slot_name) ==
    StartsWith(slot_name, device_name \o <<".">>)

\* slot_name.startswith(f'{device_name}.') or slot_name == device_name
PrefixOk(device_name, slot_name) ==
    StartsWith(slot_name, device_name \o <<".">>) \/ slot_name = device_name

\* f'{dev_id}:{BinarySize(alloc):s}' or f'{dev_id}:{alloc}'
AllocPiece(kst, slot_name, dev_id, alloc) ==
    IF SlotType(kst, slot_name) = "bytes"
    THEN dev_id \o <<":">> \o FormatSizeS(IntOf(alloc))
    ELSE dev_id \o <<":">> \o DecimalStr(alloc)

\* the allocation line of one slot, its pieces joined with ";"
AllocLineSemicolon(kst, slot_name, per_device_alloc) ==
    Upper(slot_name) \o <<"_SHARES", "=">>
    \o Join([i \in 1..Len(per_device_alloc) |->
                AllocPiece(kst, slot_name, per_device_alloc[i][1],
                           per_device_alloc[i][2])],
            <<";">>)
    \o <<NL>>

\* f'{slot_name.upper()}_SHARES={alloc_str}\n'
AllocLine(kst, slot_name, per_device_alloc) ==
    Upper(slot_name) \o <<"_SHARES", "=">>
    \o Join([i \in 1..Len(per_device_alloc) |->
                AllocPiece(kst, slot_name, per_device_alloc[i][1],
                           per_device_alloc[i][2])],
            <<",">>)
    \o <<NL>>

\* the lines of one device family, in the order of its slots
RECURSIVE FamilyLines(_, _)
FamilyLines(kst, slots) ==
    IF slots = <<>> THEN <<>>
    ELSE AllocLine(kst, slots[1][1], slots[1][2]) \o FamilyLines(kst, Tail(slots))

RECURSIVE AllocationLines(_, _)
AllocationLines(kst, allocations) ==
    IF allocations = <<>> THEN <<>>
    ELSE FamilyLines(kst, allocations[1][2])
            \o AllocationLines(kst, Tail(allocations))

\* no slot name of the record fails the prefix test
AllPrefixOk(allocations) ==
    \A i \in 1..Len(allocations) :
        \A j \in 1..Len(allocations[i][2]) :
            PrefixOk(allocations[i][1], allocations[i][2][j][1])

\* the four fixed lines
HeaderLines(r) ==
    <<"CID", "=">> \o r.container_id \o <<NL>>
    \o <<"SCRATCH_SIZE", "=">> \o FormatSizeM(r.scratch_disk_size) \o <<NL>>
    \o <<"MOUNTS", "=">>
    \o Join([i \in 1..Len(r.mounts) |-> MountStr(r.mounts[i])], <<",">>)
    \o <<NL>>
    \o <<"SLOTS", "=">> \o JsonDumps(r.slots) \o <<NL>>

\* write_to_string: the text, or ValueError and no text
write_to_string(r, kst) ==
    IF ~AllPrefixOk(r.allocations)
    THEN [err |-> "ValueError", val |-> <<>>]
    ELSE [err |-> "none",
          val |-> HeaderLines(r) \o AllocationLines(kst, r.allocations)]

-----------------------------------------------------------------------------
(* KernelResourceSpec.read_from_string                                     *)

NoRecord ==
    [container_id |-> <<>>, slots |-> <<>>, allocations |-> <<>>,
     scratch_disk_size |-> 0, mounts |-> <<>>]

\* key, val = line.strip().split('=', maxsplit=1), cut at the last "="
KeyValueAtLast(line) ==
    LET l == Strip(line)
        i == CHOOSE k \in 1..Len(l) :
                l[k] = "=" /\ \A m \in (k + 1)..Len(l) : l[m] # "="
    IN  <<SubSeq(l, 1, i - 1), SubSeq(l, i + 1, Len(l))>>

\* key, val = line.strip().split('=', maxsplit=1)
KeyValue(line) == Partition(Strip(line), "=")

\* the loop over text.split('\n') that fills kvpairs
RECURSIVE ReadLines(_, _)
ReadLines(lines, kvpairs) ==
    IF lines = <<>> THEN kvpairs
    ELSE IF ~Contains(lines[1], "=") THEN ReadLines(Tail(lines), kvpairs)
    ELSE LET kv == KeyValue(lines[1])
         IN  ReadLines(Tail(lines), Put(kvpairs, kv[1], kv[2]))

KvPairs(str) == ReadLines(Split(str, NL), <<>>)

\* key.endswith('_SHARES')
IsSharesKey(key) == key # <<>> /\ key[Len(key)] = "_SHARES"

\* SlotName(key[:-7].lower())
SlotNameOf(key) == Lower(SubSeq(key, 1, Len(key) - 1))

\* the family taken to be the whole slot name
DeviceNameWhole(slot_name) == slot_name

\* DeviceName(slot_name.split('.')[0])
DeviceNameOf(slot_name) == Split(slot_name, ".")[1]

\* the amount of one entry: Decimal(BinarySize.from_str(raw_alloc)) or
\* Decimal(raw_alloc)
ParseAlloc(kst, slot_name, raw_alloc) ==
    IF SlotType(kst, slot_name) = "bytes"
    THEN LET b == ParseSize(raw_alloc)
         IN  [err |-> b.err, val |-> 100 * b.val]
    ELSE ParseDecimal(raw_alloc)

\* the loop over val.split(','): entries without a device id or an amount
\* are skipped, a KeyError skips the entry, any other error propagates
RECURSIVE ReadEntries(_, _, _, _)
ReadEntries(kst, slot_name, entries, per_device_alloc) ==
    IF entries = <<>> THEN [err |-> "none", val |-> per_device_alloc]
    ELSE LET e == Partition(entries[1], ":")
         IN  IF e[1] = <<>> \/ e[2] = <<>>
                 THEN ReadEntries(kst, slot_name, Tail(entries), per_device_alloc)
             ELSE LET a == ParseAlloc(kst, slot_name, e[2])
                  IN  IF a.err = "KeyError"
                          THEN ReadEntries(kst, slot_name, Tail(entries),
                                           per_device_alloc)
                      ELSE IF a.err # "none" THEN [err |-> a.err, val |-> <<>>]
                      ELSE ReadEntries(kst, slot_name, Tail(entries),
                                       Put(per_device_alloc, e[1], a.val))

\* allocations[device_name][slot_name] = per_device_alloc
PutAllocation(allocations, device_name, slot_name, per_device_alloc) ==
    Put(allocations, device_name,
        Put(IF Has(allocations, device_name) THEN Get(allocations, device_name)
            ELSE <<>>,
            slot_name, per_device_alloc))

\* the loop over kvpairs.items() that fills allocations
RECURSIVE ReadAllocations(_, _, _)
ReadAllocations(kst, kvpairs, allocations) ==
    IF kvpairs = <<>> THEN [err |-> "none", val |-> allocations]
    ELSE IF ~IsSharesKey(kvpairs[1][1])
        THEN ReadAllocations(kst, Tail(kvpairs), allocations)
    ELSE LET slot_name == SlotNameOf(kvpairs[1][1])
             per == ReadEntries(kst, slot_name, Split(kvpairs[1][2], ","), <<>>)
         IN  IF per.err # "none" THEN [err |-> per.err, val |-> <<>>]
             ELSE ReadAllocations(kst, Tail(kvpairs),
                     PutAllocation(allocations, DeviceNameOf(slot_name),
                                   slot_name, per.val))

\* kvpairs[key] with a default in place of the KeyError
FieldOrEmpty(kvpairs, key) ==
    IF Has(kvpairs, <<key>>) THEN [err |-> "none", val |-> Get(kvpairs, <<key>>)]
    ELSE [err |-> "none",
          val |-> IF key = "SLOTS" THEN <<"{", "}">>
                  ELSE IF key = "SCRATCH_SIZE" THEN <<"0">> ELSE <<>>]

\* kvpairs[key]: KeyError when the key is missing
Field(kvpairs, key) ==
    IF Has(kvpairs, <<key>>) THEN [err |-> "none", val |-> Get(kvpairs, <<key>>)]
    ELSE [err |-> "KeyError", val |-> <<>>]

\* [Mount.from_str(m) for m in kvpairs['MOUNTS'].split(',') if m]
ReadMounts(str) ==
    LET ms == SelectSeq(Split(str, ","), LAMBDA m : m # <<>>)
        rs == [i \in 1..Len(ms) |-> from_str(ms[i])]
    IN  IF \E i \in 1..Len(rs) : rs[i].err # "none"
        THEN [err |-> "ValueError", val |-> <<>>]
        ELSE [err |-> "none", val |-> [i \in 1..Len(rs) |-> rs[i].val]]

\* read_from_string: the record, or the first error raised
read_from_string(str, kst) ==
    LET kvpairs == KvPairs(str)
        allocations == ReadAllocations(kst, kvpairs, <<>>)
        mounts_str == Field(kvpairs, "MOUNTS")
        mounts == ReadMounts(mounts_str.val)
        scratch_str == Field(kvpairs, "SCRATCH_SIZE")
        scratch == ParseSize(scratch_str.val)
        slots_str == Field(kvpairs, "SLOTS")
        slots == JsonLoads(slots_str.val)
        fail(e) == [err |-> e, val |-> NoRecord]
    IN  IF allocations.err # "none" THEN fail(allocations.err)
        ELSE IF mounts_str.err # "none" THEN fail(mounts_str.err)
        ELSE IF mounts.err # "none" THEN fail(mounts.err)
        ELSE IF scratch_str.err # "none" THEN fail(scratch_str.err)
        ELSE IF scratch.err # "none" THEN fail(scratch.err)
        ELSE IF slots_str.err # "none" THEN fail(slots_str.err)
        ELSE IF slots.err # "none" THEN fail(slots.err)
        ELSE [err |-> "none",
              val |-> [container_id |->
                           IF Has(kvpairs, <<"CID">>) THEN Get(kvpairs, <<"CID">>)
                           ELSE <<"unknown">>,
                       slots |-> slots.val,
                       allocations |-> allocations.val,
                       scratch_disk_size |-> scratch.val,
                       mounts |-> mounts.val]]

\* file.readlines(): the lines of the file, each with its line end
ReadLinesOfFile(str) ==
    LET ls == Split(str, NL)
        n == Len(ls)
    IN  [i \in 1..(IF ls[n] = <<>> THEN n - 1 ELSE n) |->
            IF i < n THEN Append(ls[i], NL) ELSE ls[i]]

\* read_from_file: read_from_string('\n'.join(file.readlines()))
read_from_file(str, kst) ==
    read_from_string(Join(ReadLinesOfFile(str), <<NL>>), kst)

\* The record as a value: its mappings compared as mappings.
AllocMap(allocations) ==
    [f \in Keys(allocations) |->
        LET slots == Get(allocations, f)
        IN  [n \in Keys(slots) |-> AsMap(Get(slots, n))]]

RecordValue(r) ==
    [container_id |-> r.container_id,
     slots |-> AsMap(r.slots),
     allocations |-> AllocMap(r.allocations),
     scratch_disk_size |-> r.scratch_disk_size,
     mounts |-> r.mounts]

-----------------------------------------------------------------------------
(* KernelResourceSpec.to_json_serializable_dict                            *)

\* str(alloc) or f'{BinarySize(alloc):s}' for a requested slot, whose value
\* is a str: BinarySize(str) is int(str), a ValueError unless a numeral
SlotsValue(kst, slot_name, alloc) ==
    IF SlotType(kst, slot_name) = "bytes"
    THEN IF IsNumeral(alloc)
         THEN [err |-> "none", val |-> FormatSizeS(NumeralValue(alloc))]
         ELSE [err |-> "ValueError", val |-> <<>>]
    ELSE [err |-> "none", val |-> alloc]

\* the loop over o['slots'].items(): every iteration assigns o['slots']
\* itself, so the last slot's rendering is what remains
RECURSIVE JsonSlots(_, _, _)
JsonSlots(kst, slots, o_slots) ==
    IF slots = <<>> THEN [err |-> "none", val |-> o_slots]
    ELSE LET v == SlotsValue(kst, slots[1][1], slots[1][2])
         IN  IF v.err # "none" THEN [err |-> v.err, val |-> o_slots]
             ELSE JsonSlots(kst, Tail(slots),
                            [tag |-> "str", str |-> v.val, dict |-> <<>>])

\* str(alloc) or f'{BinarySize(alloc):s}' for an allocated amount
AllocValue(kst, slot_name, alloc) ==
    IF SlotType(kst, slot_name) = "bytes"
    THEN FormatSizeS(IntOf(alloc))
    ELSE DecimalStr(alloc)

\* o['allocations'][dev_name][slot_name][dev_id] = alloc, for all of them
JsonAllocations(kst, allocations) ==
    [i \in 1..Len(allocations) |->
        <<allocations[i][1],
          [j \in 1..Len(allocations[i][2]) |->
              <<allocations[i][2][j][1],
                [k \in 1..Len(allocations[i][2][j][2]) |->
                    <<allocations[i][2][j][2][k][1],
                      AllocValue(kst, allocations[i][2][j][1],
                                 allocations[i][2][j][2][k][2])>>]>>]>>]

NoJson ==
    [container_id |-> <<>>,
     slots |-> [tag |-> "dict", str |-> <<>>, dict |-> <<>>],
     allocations |-> <<>>, scratch_disk_size |-> 0, mounts |-> <<>>]

to_json_serializable_dict(r, kst) ==
    LET o_slots == JsonSlots(kst, r.slots,
                             [tag |-> "dict", str |-> <<>>, dict |-> r.slots])
    IN  IF o_slots.err # "none" THEN [err |-> o_slots.err, val |-> NoJson]
        ELSE [err |-> "none",
              val |-> [container_id |-> r.container_id,
                       slots |-> o_slots.val,
                       allocations |-> JsonAllocations(kst, r.allocations),
                       scratch_disk_size |-> r.scratch_disk_size,
                       mounts |-> [i \in 1..Len(r.mounts) |->
                                      MountStr(r.mounts[i])]]]

-----------------------------------------------------------------------------
(* Specification of a record written, read back and projected to JSON.     *)

MaxAllocs == 2

cuda == <<"cuda">>
cuda_mem == <<"cuda", ".", "mem">>
cuda_shares == <<"cuda", ".", "shares">>
cpu == <<"cpu">>
mem == <<"mem">>
tpu == <<"tpu">>
Cuda == <<"Cuda">>
Cuda_mem == <<"Cuda", ".", "mem">>

\* The registry as the plugins' slot_types fill it, and the empty registry
\* the module starts with.
Registry ==
    << <<cuda_mem, "bytes">>, <<cuda_shares, "count">>, <<cpu, "count">>,
       <<mem, "bytes">>, <<Cuda_mem, "bytes">> >>

Registries == {Registry, <<>>}

\* (device family, slot name) pairs; an empty slot name stands for a family
\* with no slot at all.
AllocKeys ==
    { <<cuda, cuda_mem>>, <<cuda, cuda_shares>>, <<cpu, cpu>>, <<cuda, mem>>,
      <<Cuda, Cuda_mem>>, <<cuda_mem, cuda_mem>>, <<tpu, <<>>>> }

\* per-device amounts, in hundredths: none, 0.5, 1025, and 1 with 1024
DevMaps ==
    { <<>>,
      << <<(<<"0">>), 50>> >>,
      << <<(<<"0">>), 102500>> >>,
      << <<(<<"0">>), 100>>, <<(<<"1">>), 102400>> >> }

AllocChoices ==
    { <<k[1], k[2], d>> : k \in AllocKeys \ {<<tpu, <<>>>>}, d \in DevMaps }
    \cup { <<tpu, <<>>, <<>>>> }

RECURSIVE BuildAllocations(_, _)
BuildAllocations(choices, allocations) ==
    IF choices = <<>> THEN allocations
    ELSE BuildAllocations(Tail(choices),
            IF choices[1][2] = <<>>
            THEN Put(allocations, choices[1][1], <<>>)
            ELSE PutAllocation(allocations, choices[1][1], choices[1][2],
                               choices[1][3]))

AllocationsPool ==
    { BuildAllocations(c, <<>>) : c \in StringsUpTo(AllocChoices, MaxAllocs) }

BindMount ==
    [type |-> "BIND", source_is_path |-> TRUE,
     source |-> Path(<<"/", "data">>), target |-> Path(<<"/", "w">>),
     permission |-> "rw", opts |-> "None"]

VolumeMount ==
    [type |-> "VOLUME", source_is_path |-> FALSE,
     source |-> Path(<<"vol">>), target |-> Path(<<"/", "w">>),
     permission |-> "ro", opts |-> "None"]

MountsPool ==
    { <<>>, <<BindMount, VolumeMount>>,
      \* a volume whose source is a Path, as the field is declared
      <<[VolumeMount EXCEPT !.source_is_path = TRUE]>>,
      \* a bind mount of a relative path
      <<[BindMount EXCEPT !.source = Path(<<"a", "/", "b">>)]>>,
      \* a mount with options
      <<[BindMount EXCEPT !.opts = "opts"]>> }

SlotsPool ==
    { <<>>,
      << <<cuda_mem, <<"2", "0", "4", "8">>>>, <<cpu, <<"1">>>> >> }

ScratchSizes == {1, KiB * KiB}

InitRecord ==
    /\ pc = "start"
    /\ known_slot_types \in Registries
    /\ \E a \in AllocationsPool, m \in MountsPool, sl \in SlotsPool,
          sz \in ScratchSizes :
          self = [container_id |-> <<"abc">>, slots |-> sl, allocations |-> a,
                  scratch_disk_size |-> sz, mounts |-> m]
    /\ text = <<>>
    /\ wrote = [err |-> "none", val |-> <<>>]
    /\ parsed = [err |-> "none", val |-> NoRecord]
    /\ from_file = [err |-> "none", val |-> NoRecord]
    /\ json = [err |-> "none", val |-> NoJson]
    /\ MountIdle /\ PluginIdle /\ BitmaskIdle

WriteToString ==
    /\ pc = "start"
    /\ wrote' = write_to_string(self, known_slot_types)
    /\ text' = wrote'.val
    /\ pc' = IF wrote'.err = "none" THEN "written" ELSE "write_failed"
    /\ UNCHANGED <<known_slot_types, self, parsed, from_file, json,
                   mountVars, pluginVars, bitmaskVars>>

ReadFromString ==
    /\ pc = "written"
    /\ parsed' = read_from_string(text, known_slot_types)
    /\ pc' = "read"
    /\ UNCHANGED <<known_slot_types, self, text, wrote, from_file, json,
                   mountVars, pluginVars, bitmaskVars>>

ToJson ==
    /\ pc = "start"
    /\ json' = to_json_serializable_dict(self, known_slot_types)
    /\ pc' = "json"
    /\ UNCHANGED <<known_slot_types, self, text, wrote, parsed, from_file,
                   mountVars, pluginVars, bitmaskVars>>

NextRecord == WriteToString \/ ReadFromString \/ ToJson

SpecRecord == InitRecord /\ [][NextRecord]_vars

-----------------------------------------------------------------------------
(* Claims about a record written and read back.                            *)

\* the (family, slot name) pairs of an allocations mapping
SlotPairs(allocations) ==
    UNION { { <<allocations[i][1], allocations[i][2][j][1]>> :
                j \in 1..Len(allocations[i][2]) } :
            i \in 1..Len(allocations) }

\* every slot type of the record is in the registry
AllKnown ==
    \A p \in SlotPairs(self.allocations) : p[2] \in Keys(known_slot_types)

IsLowerCase(str) == Lower(str) = str

\* family and slot names are lower-case and no family name holds a "."
NamesCanonical ==
    /\ \A i \in 1..Len(self.allocations) :
          IsLowerCase(self.allocations[i][1])
          /\ ~Contains(self.allocations[i][1], ".")
    /\ \A p \in SlotPairs(self.allocations) : IsLowerCase(p[2])

\* a size the scaled rendering shows exactly: a whole number of its unit
WholeUnits(val) ==
    \/ val < KiB
    \/ val < KiB * KiB /\ val % KiB = 0
    \/ val % (KiB * KiB) = 0

\* the amounts of byte-typed slots are whole bytes in whole units
AmountsCanonical ==
    \A i \in 1..Len(self.allocations) :
        \A j \in 1..Len(self.allocations[i][2]) :
            LET slot == self.allocations[i][2][j]
            IN  SlotType(known_slot_types, slot[1]) = "bytes" =>
                    \A k \in 1..Len(slot[2]) :
                        slot[2][k][2] % 100 = 0
                        /\ WholeUnits(slot[2][k][2] \div 100)

\* a mount as Mount.from_str builds it
MountCanonical(m) ==
    /\ m.opts = "None"
    /\ is_absolute(m.target)
    /\ m.type = "BIND" => m.source_is_path /\ is_absolute(m.source)
    /\ m.type = "VOLUME" =>
          ~m.source_is_path /\ ~is_absolute(m.source) /\ Len(m.source.names) = 1

Canonical ==
    /\ NamesCanonical
    /\ \A i \in 1..Len(self.allocations) : self.allocations[i][2] # <<>>
    /\ AmountsCanonical
    /\ self.scratch_disk_size % (KiB * KiB) = 0
    /\ \A i \in 1..Len(self.mounts) : MountCanonical(self.mounts[i])

RoundTrips ==
    /\ parsed.err = "none"
    /\ RecordValue(parsed.val) = RecordValue(self)

PrefixViolated ==
    \E p \in SlotPairs(self.allocations) :
        /\ p[2] # p[1]
        /\ ~(Len(p[2]) > Len(p[1])
             /\ \A i \in 1..Len(p[1]) : p[2][i] = p[1][i]
             /\ p[2][Len(p[1]) + 1] = ".")

\* C4: write_to_string raises ValueError and returns no text exactly when
\* some slot name is neither equal to its family name nor starts with the
\* family name and "."; otherwise it returns the text.
C4_FamilyPrefix ==
    pc \in {"written", "write_failed", "read"} =>
        /\ PrefixViolated =>
              wrote.err = "ValueError" /\ wrote.val = <<>> /\ text = <<>>
        /\ ~PrefixViolated => wrote.err = "none" /\ text # <<>>

\* a record with a slot outside its family has been refused
C4_Witness ==
    /\ pc = "write_failed"
    /\ wrote.err = "ValueError"
    /\ <<cuda, mem>> \in SlotPairs(self.allocations)

\* every slot of the record is filed under its family and name in what was read
FamiliesRecovered ==
    \A p \in SlotPairs(self.allocations) :
        p \in SlotPairs(parsed.val.allocations)

Rendered(slot_name, alloc) ==
    IF SlotType(known_slot_types, slot_name) = "bytes"
    THEN FormatSizeS(alloc \div 100)
    ELSE DecimalStr(alloc)

\* C8: the projection's 'slots' is a mapping with one entry per requested
\* slot name, and 'allocations' holds one entry per (family, slot, device)
\* of the record, each value rendered by the rule of the text encoding.
C8_JsonProjection ==
    pc = "json" =>
        /\ json.err = "none"
        /\ json.val.slots.tag = "dict"
        /\ Keys(json.val.slots.dict) = Keys(self.slots)
        /\ Len(json.val.allocations) = Len(self.allocations)
        /\ \A i \in 1..Len(self.allocations) :
              /\ json.val.allocations[i][1] = self.allocations[i][1]
              /\ Len(json.val.allocations[i][2]) = Len(self.allocations[i][2])
              /\ \A j \in 1..Len(self.allocations[i][2]) :
                    LET slot == self.allocations[i][2][j]
                        out == json.val.allocations[i][2][j]
                    IN  /\ out[1] = slot[1]
                        /\ Len(out[2]) = Len(slot[2])
                        /\ \A k \in 1..Len(slot[2]) :
                              out[2][k] = <<slot[2][k][1],
                                           Rendered(slot[1], slot[2][k][2])>>

-----------------------------------------------------------------------------
(* Specification of read_from_string and read_from_file on arbitrary text. *)

MaxLines == 6

LinePool ==
    { <<"CID", "=", "a", "=", "b">>,
      <<"SCRATCH_SIZE", "=", "1", "m">>,
      <<"MOUNTS", "=", "vol", ":", "/", "w", ":", "ro">>,
      <<"SLOTS", "=">> \o JsonDumps(<< <<cpu, <<"1">>>> >>),
      <<"CUDA", ".", "MEM", "_SHARES", "=", "0", ":", "1", "k">>,
      <<"TPU", "_SHARES", "=", "0", ":", "1">>,
      <<"garbage">>,
      <<>> }

RECURSIVE LineSeqs(_, _)
\* the sequences of up to n distinct lines out of S
LineSeqs(S, n) ==
    IF n = 0 THEN {<<>>}
    ELSE {<<>>} \cup UNION { { <<l>> \o ls : ls \in LineSeqs(S \ {l}, n - 1) } : l \in S }

InitText ==
    /\ pc = "written"
    /\ known_slot_types = Registry
    /\ \E ls \in LineSeqs(LinePool, MaxLines) : text = Join(ls, <<NL>>)
    /\ self = NoRecord
    /\ wrote = [err |-> "none", val |-> <<>>]
    /\ parsed = [err |-> "none", val |-> NoRecord]
    /\ from_file = [err |-> "none", val |-> NoRecord]
    /\ json = [err |-> "none", val |-> NoJson]
    /\ MountIdle /\ PluginIdle /\ BitmaskIdle

ReadFromFile ==
    /\ pc = "read"
    /\ from_file' = read_from_file(text, known_slot_types)
    /\ pc' = "file_read"
    /\ UNCHANGED <<known_slot_types, self, text, wrote, parsed, json,
                   mountVars, pluginVars, bitmaskVars>>

NextText == ReadFromString \/ ReadFromFile

SpecText == InitText /\ [][NextText]_vars

\* the lines of the text
TextLines == Split(text, NL)

\* line i is a KEY=... line
IsLineOf(i, key) == StartsWith(Strip(TextLines[i]), <<key, "=">>)

HasLineOf(key) == \E i \in 1..Len(TextLines) : IsLineOf(i, key)

\* the text without its line i
WithoutLine(i) ==
    Join(SubSeq(TextLines, 1, i - 1) \o SubSeq(TextLines, i + 1, Len(TextLines)),
         <<NL>>)

\* line i is a <SLOT>_SHARES line of a slot the registry does not know
IsUnknownSharesLine(i) ==
    LET l == Strip(TextLines[i])
        e == Find(l, "=")
    IN  /\ e > 2
        /\ l[e - 1] = "_SHARES"
        /\ Lower(SubSeq(l, 1, e - 2)) \notin Keys(known_slot_types)

\* C2: a <SLOT>_SHARES line of a slot the registry does not know at parse
\* time raises nothing and leaves no entry: the outcome is that of the text
\* without the line.
C2_UnknownSlotDropped ==
    pc = "read" =>
        \A i \in 1..Len(TextLines) :
            IsUnknownSharesLine(i) =>
                parsed = read_from_string(WithoutLine(i), known_slot_types)

\* C3: without a MOUNTS, a SLOTS or a SCRATCH_SIZE line the parse raises and
\* returns no record.
C3_MandatoryFields ==
    pc = "read"
    /\ (~HasLineOf("MOUNTS") \/ ~HasLineOf("SLOTS") \/ ~HasLineOf("SCRATCH_SIZE"))
    => parsed.err # "none" /\ parsed.val = NoRecord

\* a text with MOUNTS and SLOTS but no SCRATCH_SIZE has been refused
C3_Witness ==
    /\ pc = "read"
    /\ HasLineOf("MOUNTS") /\ HasLineOf("SLOTS") /\ ~HasLineOf("SCRATCH_SIZE")
    /\ parsed.err = "KeyError"

\* the text without the lines that hold no "="
WithoutPlainLines ==
    Join(SelectSeq(TextLines, LAMBDA l : Contains(l, "=")), <<NL>>)

\* C10: lines without "=" never change the outcome (the text parses as it
\* does with them removed, and as read_from_file parses it after re-joining
\* its lines), and a line is split at its first "=" only: the CID line
\* "CID=a=b" gives the container id "a=b".
C10_TolerantLines ==
    /\ pc \in {"read", "file_read"} =>
          /\ parsed = read_from_string(WithoutPlainLines, known_slot_types)
          /\ parsed.err = "none" /\ HasLineOf("CID") =>
                parsed.val.container_id = <<"a", "=", "b">>
    /\ pc = "file_read" => from_file = parsed

\* a text with a garbage line, a blank line and the CID line has been parsed
\* from the string and from the file
C10_Witness ==
    /\ pc = "file_read"
    /\ parsed.err = "none"
    /\ from_file.err = "none"
    /\ HasLineOf("CID")
    /\ \E i \in 1..Len(TextLines) : TextLines[i] = <<"garbage">>
    /\ \E i \in 1..Len(TextLines) : TextLines[i] = <<>>

-----------------------------------------------------------------------------
(* Specification of Mount.from_str on arbitrary strings.                   *)

MaxMountStrLen == 7

MountAtoms == {":", "/", "a", ".", "ro"}

InitMount ==
    /\ pc = "start"
    /\ s \in StringsUpTo(MountAtoms, MaxMountStrLen)
    /\ mount = <<>>
    /\ PluginIdle /\ BitmaskIdle /\ RecordIdle

FromStr ==
    /\ pc = "start"
    /\ mount' = from_str(s)
    /\ pc' = "done"
    /\ UNCHANGED <<s, pluginVars, bitmaskVars, recordVars>>

NextMount == FromStr

SpecMount == InitMount /\ [][NextMount]_vars

\* The claim's own terms, read off the string: an absolute path starts with
\* "/"; the segments of a path are its non-empty pieces between "/" other
\* than ".".
AbsoluteStr(f) == Len(f) >= 1 /\ f[1] = "/"

Segments(f) == SelectSeq(Split(f, "/"), LAMBDA c : c # <<>> /\ c # <<".">>)

MountFields == Split(s, ":")

MountAcceptable ==
    /\ Len(MountFields) = 3
    /\ \E p \in MountPermission : MountFields[3] = <<p>>
    /\ AbsoluteStr(MountFields[2])
    /\ \/ AbsoluteStr(MountFields[1])
       \/ Len(Segments(MountFields[1])) = 1

\* C5: Mount.from_str(s) returns a Mount exactly when s has three ":"-separated
\* fields, the third a recognized permission, the target absolute and the
\* source absolute or a single segment; the Mount is BIND for an absolute
\* source and VOLUME for a single relative segment, with source, target and
\* permission taken from the fields; otherwise it raises.
C5_FromStr ==
    pc = "done" =>
        /\ (mount.err = "none") <=> MountAcceptable
        /\ mount.err # "none" => mount.err = "ValueError" /\ mount.val = NoMount
        /\ mount.err = "none" =>
              /\ mount.val.type =
                    (IF AbsoluteStr(MountFields[1]) THEN "BIND" ELSE "VOLUME")
              /\ mount.val.source = Path(MountFields[1])
              /\ mount.val.target = Path(MountFields[2])
              /\ <<mount.val.permission>> = MountFields[3]

\* A volume mount parsed from a source with a trailing "/" and a bind mount
\* are both reachable; the witness is the volume case.
C5_Witness ==
    /\ pc = "done"
    /\ mount.err = "none"
    /\ mount.val.type = "VOLUME"
    /\ Contains(MountFields[1], "/")

-----------------------------------------------------------------------------
(* bitmask2set, one loop iteration per step.                               *)

MaxMaskBits == 6

RECURSIVE Pow2(_)
Pow2(n) == IF n = 0 THEN 1 ELSE 2 * Pow2(n - 1)

InitBitmask ==
    /\ pc = "call"
    /\ mask0 \in 0..(Pow2(MaxMaskBits) - 1)
    /\ mask = 0 /\ bpos = 0 /\ bset = <<>> /\ result = {}
    /\ MountIdle /\ PluginIdle /\ RecordIdle

\* entry: bpos = 0; bset = []
Bitmask2SetEnter ==
    /\ pc = "call"
    /\ mask' = mask0
    /\ bpos' = 0
    /\ bset' = <<>>
    /\ pc' = "loop"
    /\ UNCHANGED <<mask0, result, mountVars, pluginVars, recordVars>>

\* the loop body without "bpos += 1"
Bitmask2SetLoopStuck ==
    /\ pc = "loop"
    /\ mask > 0
    /\ bset' = IF mask % 2 = 1 THEN Append(bset, bpos) ELSE bset
    /\ mask' = mask \div 2
    /\ UNCHANGED <<pc, bpos, mask0, result, mountVars, pluginVars, recordVars>>

\* while mask > 0: one iteration
Bitmask2SetLoop ==
    /\ pc = "loop"
    /\ mask > 0
    /\ bset' = IF mask % 2 = 1 THEN Append(bset, bpos) ELSE bset
    /\ mask' = mask \div 2
    /\ bpos' = bpos + 1
    /\ UNCHANGED <<pc, mask0, result, mountVars, pluginVars, recordVars>>

\* return frozenset(bset)
Bitmask2SetReturn ==
    /\ pc = "loop"
    /\ ~(mask > 0)
    /\ result' = {bset[i] : i \in 1..Len(bset)}
    /\ pc' = "done"
    /\ UNCHANGED <<mask0, mask, bpos, bset, mountVars, pluginVars, recordVars>>

NextBitmask == Bitmask2SetEnter \/ Bitmask2SetLoop \/ Bitmask2SetReturn

\* The function is sequential code: an enabled step is eventually taken.
SpecBitmask == InitBitmask /\ [][NextBitmask]_vars /\ WF_vars(NextBitmask)

\* bit i of m
Bit(m, i) == (m \div Pow2(i)) % 2

\* C7: for every non-negative mask, bitmask2set terminates and returns exactly
\* the zero-based positions of the bits of mask that are 1.
C7_Bitmask2Set ==
    /\ <>(pc = "done")
    /\ [](pc = "done" =>
            result = {i \in 0..MaxMaskBits : Bit(mask0, i) = 1})

\* bitmask2set(0b1011) has returned {0, 1, 3}
C7_Witness == pc = "done" /\ mask0 = 11 /\ result = {0, 1, 3}

-----------------------------------------------------------------------------
(* ComputePluginContext.discover_plugins                                   *)

MaxPlugins == 4

PluginNames == {"cpu", "mem", "gpu", "fpga"}

\* accel_lt_intrinsic with the two keys exchanged
accel_lt_intrinsic_reversed(item) ==
    IF item[1] \in {"cpu", "mem"} THEN -1 ELSE 0

\* the sort key: 0 for the intrinsic plugins, -1 for the others
accel_lt_intrinsic(item) ==
    IF item[1] \in {"cpu", "mem"} THEN 0 ELSE -1

\* x put into the sorted list l behind every element whose key is not larger
RECURSIVE InsertByKey(_, _)
InsertByKey(l, x) ==
    IF l = <<>> THEN <<x>>
    ELSE IF accel_lt_intrinsic(l[Len(l)]) <= accel_lt_intrinsic(x)
        THEN Append(l, x)
    ELSE Append(InsertByKey(SubSeq(l, 1, Len(l) - 1), x), l[Len(l)])

\* list.sort(key=accel_lt_intrinsic): ascending by key, and stable
RECURSIVE SortByKey(_)
SortByKey(l) ==
    IF l = <<>> THEN <<>>
    ELSE InsertByKey(SortByKey(SubSeq(l, 1, Len(l) - 1)), l[Len(l)])

\* The base discovery yields (name, plugin class) pairs; the class of the
\* i-th pair is identified by i.
InitPlugins ==
    /\ pc = "call"
    /\ \E names \in StringsUpTo(PluginNames, MaxPlugins) :
          scanned_plugins = [i \in 1..Len(names) |-> <<names[i], i>>]
    /\ yielded = <<>>
    /\ MountIdle /\ BitmaskIdle /\ RecordIdle

discover_plugins ==
    /\ pc = "call"
    /\ yielded' = SortByKey(scanned_plugins)
    /\ pc' = "done"
    /\ UNCHANGED <<scanned_plugins, mountVars, bitmaskVars, recordVars>>

NextPlugins == discover_plugins

SpecPlugins == InitPlugins /\ [][NextPlugins]_vars

Intrinsic(item) == item[1] = "cpu" \/ item[1] = "mem"

Accelerator(item) == ~Intrinsic(item)

NamesOf(l) == [i \in 1..Len(l) |-> l[i][1]]

\* C6: discover_plugins yields the discovered pairs with every cpu/mem plugin
\* behind every other plugin, each of the two groups in its discovery order
\* (so nothing is lost, added or duplicated); [gpu, cpu, fpga, mem] comes out
\* as [gpu, fpga, cpu, mem].
C6_PluginOrder ==
    pc = "done" =>
        /\ yielded = SelectSeq(scanned_plugins, Accelerator)
                        \o SelectSeq(scanned_plugins, Intrinsic)
        /\ \A i, j \in 1..Len(yielded) :
              Intrinsic(yielded[i]) /\ Accelerator(yielded[j]) => j < i
        /\ NamesOf(scanned_plugins) = <<"gpu", "cpu", "fpga", "mem">>
              => NamesOf(yielded) = <<"gpu", "fpga", "cpu", "mem">>

\* the example of the claim has been sorted
C6_Witness ==
    /\ pc = "done"
    /\ NamesOf(scanned_plugins) = <<"gpu", "cpu", "fpga", "mem">>
    /\ NamesOf(yielded) = <<"gpu", "fpga", "cpu", "mem">>

=============================================================================
